---- MODULE Spec2Model ----
(***************************************************************************)
(* Model of targetcli/ui_backstore.py: the backstores part of the          *)
(* targetcli configuration tree.  The state is the driver's (rtslib's)     *)
(* live backstores and storage objects, the file system the fileio code    *)
(* inspects, and the UI children of the five UIBackstore nodes.  Each      *)
(* ui_command_* handler is one action, translated statement by statement.  *)
(***************************************************************************)
EXTENDS Bags, FiniteSets, Integers, Sequences, TLC

VARIABLES
    backstores,       \* bag of [plugin, index]: RTSRoot().backstores
    storage_objects,  \* set of storage-object records: RTSRoot().storage_objects
    children,         \* [plugin -> set of UI children]: UIBackstore._children
    files,            \* [path -> file state]: what os.path / get_block_type see
    last,             \* the command just completed, until the shell prompts
                      \* again: its arguments, how it ended, and the state
                      \* it started from
    shown,            \* the (msg, healthy) pair of the last summary() call
    fd,               \* a call of _create_file in progress: its arguments,
                      \* its position and what it has written
    sessions          \* [session -> its create command in progress], for
                      \* targetcli processes running side by side

vars ==
    <<backstores, storage_objects, children, files, last, shown, fd, sessions>>

\* what the ui_command_* handlers of one session never touch
aside == <<shown, fd, sessions>>

----------------------------------------------------------------------------
(* Bounds of the model. *)

\* range(1048576) of next_hba_index, scaled down
IndexBound == 3
\* a create command is issued only while at most this many backstores are live
MaxBackstores == 3

----------------------------------------------------------------------------
(* Domains of the commands' parameters. *)

Plugins == {"pscsi", "rd_dr", "rd_mcp", "fileio", "iblock"}

Names == {"a", "b"}

NoneV == "None"

\* the size parameter: a number of bytes (or None where it is optional)
Sizes == {1025}

Paths == {"/new", "/img", "/dev/sdb", "/tmp"}

\* the device a pscsi or iblock storage object is made on
Devices == {"/dev/sdb"}

\* what the resource driver answers to the calls of one command: every call
\* succeeds, or the named call raises
DriverFaults == {"none", "backstore", "backstore2", "storage_object"}

NoIndex == -1

\* size=None
NoSize == -2

\* no node: what a command returns when it returns None
NoNode ==
    [so |-> [plugin |-> NoneV, index |-> NoIndex, name |-> NoneV,
             udev_path |-> NoneV, size |-> NoSize],
     name |-> NoneV]

----------------------------------------------------------------------------
(* The file system as seen through get_block_type, is_disk_partition,      *)
(* os.path.isfile, os.path.exists and os.path.getsize.                     *)

Absent == [type |-> "absent", size |-> 0]

InitFiles ==
    [p \in Paths |->
        CASE p = "/new"     -> Absent
          [] p = "/img"     -> [type |-> "file", size |-> 3]
          [] p = "/dev/sdb" -> [type |-> "dev", size |-> 0]
          [] OTHER          -> [type |-> "dir", size |-> 0]]

\* is_dev with get_block_type and is_disk_partition finding nothing
is_dev_never(fs, path) == FALSE

is_dev(fs, path) == fs[path].type = "dev"

isfile(fs, path) == fs[path].type = "file"

exists(fs, path) == fs[path].type # "absent"

Min(a, b) == IF a < b THEN a ELSE b

\* the while loop of _create_file: the sizes of the chunks written
RECURSIVE write_chunks(_)
write_chunks(size) ==
    IF size > 0
        THEN <<Min(size, 1024)>> \o write_chunks(size - Min(size, 1024))
        ELSE <<>>

RECURSIVE SumSeq(_)
SumSeq(s) == IF s = <<>> THEN 0 ELSE Head(s) + SumSeq(Tail(s))

\* _create_file with no I/O failure: the file system afterwards
_create_file(fs, filename, size, sparse) ==
    [fs EXCEPT ![filename] =
        [type |-> "file",
         size |-> IF sparse THEN size ELSE SumSeq(write_chunks(size))]]

----------------------------------------------------------------------------
(* The resource driver (rtslib), as the code uses it.                      *)

Backstore(plugin, index) == [plugin |-> plugin, index |-> index]

ErrBackstoreExists == "RTSLibError: backstore already exists"

ErrBackstore == "RTSLibError: backstore"

ErrStorageObject == "RTSLibError: storage object"

\* XBackstore(index, mode='create'): refused at an index already taken
Backstore_create(bs, plugin, index, fault) ==
    IF BagIn(Backstore(plugin, index), bs)
        THEN [ok |-> FALSE, bs |-> bs, error |-> ErrBackstoreExists]
    ELSE IF fault
        THEN [ok |-> FALSE, bs |-> bs, error |-> ErrBackstore]
    ELSE [ok |-> TRUE, bs |-> bs (+) SetToBag({Backstore(plugin, index)}),
          error |-> ""]

\* backstore.delete(): the backstore and whatever is still on it
Backstore_delete(bs, plugin, index) ==
    bs (-) SetToBag({Backstore(plugin, index)})

StorageObject(plugin, index, name, udev_path, size) ==
    [plugin |-> plugin, index |-> index, name |-> name,
     udev_path |-> udev_path, size |-> size]

\* hba.storage_objects
hba_storage_objects(sos, plugin, index) ==
    {so \in sos : so.plugin = plugin /\ so.index = index}

\* XStorageObject(backstore, name, ...)
StorageObject_create(sos, so, fault) ==
    IF fault \/ \E o \in hba_storage_objects(sos, so.plugin, so.index) :
                    o.name = so.name
        THEN [ok |-> FALSE, sos |-> sos]
        ELSE [ok |-> TRUE, sos |-> sos \cup {so}]

\* storage_object.delete()
StorageObject_delete(sos, so) == sos \ {so}

----------------------------------------------------------------------------
(* The UI tree.                                                            *)

\* dedup_so_name counting the name over the storage objects of all plugins
dedup_so_name_any_plugin(sos, so) ==
    IF Cardinality({o \in sos : o.name = so.name}) > 1
        THEN so.name \o "_" \o ToString(so.index)
        ELSE so.name

dedup_so_name(sos, so) ==
    IF Cardinality({o \in sos : o.plugin = so.plugin /\ o.name = so.name}) > 1
        THEN so.name \o "_" \o ToString(so.index)
        ELSE so.name

\* UIStorageObject(so, parent): a child named after the storage object
UIStorageObject(so) == [so |-> so, name |-> so.name]

\* UIBackstore.refresh: the children of one backstore node
refresh(sos, plugin) ==
    {[so |-> so, name |-> dedup_so_name(sos, so)] :
        so \in {o \in sos : o.plugin = plugin}}

\* UIBackstores.refresh: every backstore node is rebuilt
UIBackstores_refresh(sos) == [p \in Plugins |-> refresh(sos, p)]

\* ui_eval_param(value, 'bool', True)
BadParam == "BadParam"

ui_eval_param(value) ==
    CASE value = NoneV   -> "True"
      [] value = "true"  -> "True"
      [] value = "false" -> "False"
      [] OTHER           -> BadParam

prm_gen_wwn(generate_wwn) == ui_eval_param(generate_wwn)

prm_buffered(buffered) == ui_eval_param(buffered)

SetMin(S) == CHOOSE i \in S : \A j \in S : i <= j

\* next_hba_index taking the number of live backstores for the free index
next_hba_index_count(bs, plugin) ==
    LET indexes == {b.index : b \in {x \in BagToSet(bs) : x.plugin = plugin}}
    IN  IF Cardinality(indexes) < IndexBound
            THEN Cardinality(indexes) ELSE NoIndex

\* next_hba_index without the test "index not in indexes"
next_hba_index_unchecked(bs, plugin) == 0

\* next_hba_index: the first index of range(IndexBound) no live backstore of
\* the plugin has; NoIndex stands for the loop ending without a break
next_hba_index(bs, plugin) ==
    LET indexes == {b.index : b \in {x \in BagToSet(bs) : x.plugin = plugin}}
        free    == {index \in 0..(IndexBound - 1) : index \notin indexes}
    IN  IF free = {} THEN NoIndex ELSE SetMin(free)

\* assert_available_so_name looking at the children of every backstore node
assert_available_so_name_any_plugin(ch, plugin, name) ==
    name \in {child.name : child \in UNION {ch[p] : p \in Plugins}}

\* assert_available_so_name: TRUE when it raises
assert_available_so_name(ch, plugin, name) ==
    name \in {child.name : child \in ch[plugin]}

----------------------------------------------------------------------------
(* How a command ends: the state it leaves and what its caller gets.       *)

ErrNameConflict == "ExecutionError: Storage object already exist."

\* line 167 reads backstore_index, which no statement has bound when the
\* loop ends without a break
ErrNoIndex == "UnboundLocalError: backstore_index"

\* line 168, the error next_hba_index is written to raise
ErrExhausted == "ExecutionError: Cannot find an available backstore index."

ErrParam == "ExecutionError: bad parameter value"

ErrNotAFile == "ExecutionError: Path exists but is not a file"

ErrNeedSize == "ExecutionError: need a size"

LogNotFound == "error: No storage object named"

World(bs, sos, ch, fs) == [bs |-> bs, sos |-> sos, ch |-> ch, fs |-> fs]

Raise(w, error) ==
    [bs |-> w.bs, sos |-> w.sos, ch |-> w.ch, fs |-> w.fs,
     outcome |-> "raised", error |-> error, node |-> NoNode, log |-> ""]

Return(w, node, log) ==
    [bs |-> w.bs, sos |-> w.sos, ch |-> w.ch, fs |-> w.fs,
     outcome |-> "returned", error |-> "", node |-> node, log |-> log]

\* the tail every create shares: the storage object is made on the backstore
\* just created; on an exception the backstore is deleted and the exception
\* raised again, otherwise the new UI child is returned
try_storage_object(w, bs, so, param_ok, fault) ==
    LET made == StorageObject_create(w.sos, so, fault = "storage_object")
        back == Backstore_delete(bs, so.plugin, so.index)
    IN  IF ~param_ok
            THEN Raise(World(back, w.sos, w.ch, w.fs), ErrParam)
        ELSE IF ~made.ok
            THEN Raise(World(back, w.sos, w.ch, w.fs), ErrStorageObject)
        ELSE Return(World(bs, made.sos,
                          [w.ch EXCEPT ![so.plugin] = @ \cup {UIStorageObject(so)}],
                          w.fs),
                    UIStorageObject(so), "")

\* name check, index, backstore, then the storage object: the body shared by
\* the pscsi, rd_dr, rd_mcp and iblock creates
create_on_new_backstore(w, plugin, name, udev_path, size, param_ok, fault) ==
    IF assert_available_so_name(w.ch, plugin, name)
        THEN Raise(w, ErrNameConflict)
    ELSE LET index == next_hba_index(w.bs, plugin)
             hba   == Backstore_create(w.bs, plugin, index, fault = "backstore")
         IN  IF index = NoIndex THEN Raise(w, ErrNoIndex)
             ELSE IF ~hba.ok THEN Raise(w, hba.error)
             ELSE try_storage_object(w, hba.bs,
                      StorageObject(plugin, index, name, udev_path, size),
                      param_ok, fault)

UIPSCSIBackstore_ui_command_create(w, name, dev, fault) ==
    create_on_new_backstore(w, "pscsi", name, dev, 0, TRUE, fault)

UIRDDRBackstore_ui_command_create(w, name, size, generate_wwn, fault) ==
    create_on_new_backstore(w, "rd_dr", name, "", size,
                            prm_gen_wwn(generate_wwn) # BadParam, fault)

UIRDMCPBackstore_ui_command_create(w, name, size, generate_wwn, fault) ==
    create_on_new_backstore(w, "rd_mcp", name, "", size,
                            prm_gen_wwn(generate_wwn) # BadParam, fault)

UIIBlockBackstore_ui_command_create(w, name, dev, generate_wwn, fault) ==
    create_on_new_backstore(w, "iblock", name, dev, 0,
                            prm_gen_wwn(generate_wwn) # BadParam, fault)

\* UIFileIOBackstore.ui_command_create
UIFileIOBackstore_ui_command_create(w, name, file_or_dev, size, generate_wwn, buffered, sparse, fault) ==
    IF assert_available_so_name(w.ch, "fileio", name)
        THEN Raise(w, ErrNameConflict)
    ELSE IF ui_eval_param(sparse) = BadParam
        THEN Raise(w, ErrParam)
    ELSE
    LET index1 == next_hba_index(w.bs, "fileio")
        \* line 356
        hba1   == Backstore_create(w.bs, "fileio", index1, fault = "backstore")
        w1     == World(hba1.bs, w.sos, w.ch, w.fs)
        dev    == is_dev(w.fs, file_or_dev)
        \* lines 362 and 378
        index2 == next_hba_index(hba1.bs, "fileio")
        hba2   == Backstore_create(hba1.bs, "fileio", index2, fault = "backstore2")
        params == /\ prm_gen_wwn(generate_wwn) # BadParam
                  /\ prm_buffered(buffered) # BadParam
    IN  IF index1 = NoIndex THEN Raise(w, ErrNoIndex)
        ELSE IF ~hba1.ok THEN Raise(w, hba1.error)
        ELSE IF (size = NoSize /\ dev) \/ (size # NoSize /\ ~dev)
            THEN IF index2 = NoIndex THEN Raise(w1, ErrNoIndex)
                 ELSE IF ~hba2.ok THEN Raise(w1, hba2.error)
                 ELSE try_storage_object(w1, hba2.bs,
                          StorageObject("fileio", index2, name, file_or_dev,
                                        IF size = NoSize
                                            THEN w.fs[file_or_dev].size
                                            ELSE size),
                          params, fault)
        ELSE IF isfile(w.fs, file_or_dev)
            \* size = new_size, and the function ends
            THEN Return(w1, NoNode, "")
        ELSE IF exists(w.fs, file_or_dev)
            THEN Raise(w1, ErrNotAFile)
        ELSE IF size = NoSize \/ size = 0
            THEN Raise(w1, ErrNeedSize)
        ELSE Return(World(w1.bs, w1.sos, w1.ch,
                          _create_file(w.fs, file_or_dev, size,
                                       ui_eval_param(sparse) = "True")),
                    NoNode, "")

\* get_child(name): the children of that name (none: ValueError)
get_child(ch, plugin, name) == {child \in ch[plugin] : child.name = name}

\* ui_command_delete deleting the backstore whatever is left on it
ui_command_delete_always_hba(w, plugin, name, child) ==
    IF child = NoNode
        THEN Return(w, NoNode, LogNotFound)
    ELSE LET so   == child.so
             sos1 == StorageObject_delete(w.sos, so)
             bs1  == Backstore_delete(w.bs, so.plugin, so.index)
         IN  Return(World(bs1, sos1, UIBackstores_refresh(sos1), w.fs),
                    NoNode, "")

\* ui_command_delete passing over the ValueError of get_child in silence
ui_command_delete_silent(w, plugin, name, child) ==
    IF child = NoNode
        THEN Return(w, NoNode, "")
    ELSE LET so   == child.so
             sos1 == StorageObject_delete(w.sos, so)
             bs1  == IF hba_storage_objects(sos1, so.plugin, so.index) = {}
                        THEN Backstore_delete(w.bs, so.plugin, so.index)
                        ELSE w.bs
         IN  Return(World(bs1, sos1, UIBackstores_refresh(sos1), w.fs),
                    NoNode, "")

\* UIBackstore.ui_command_delete, child being what get_child returned
ui_command_delete(w, plugin, name, child) ==
    IF child = NoNode
        THEN Return(w, NoNode, LogNotFound)
    ELSE LET so   == child.so
             sos1 == StorageObject_delete(w.sos, so)
             bs1  == IF hba_storage_objects(sos1, so.plugin, so.index) = {}
                        THEN Backstore_delete(w.bs, so.plugin, so.index)
                        ELSE w.bs
         IN  \* remove_child, then the root's refresh rebuilds every node
             Return(World(bs1, sos1, UIBackstores_refresh(sos1), w.fs),
                    NoNode, "")

----------------------------------------------------------------------------
(* Initial states: an empty driver, or a configuration left by the legacy  *)
(* UI: one backstore shared by two storage objects, or one name used on    *)
(* two backstores of a plugin.                                             *)

LegacyObject(plugin, index, name) ==
    StorageObject(plugin, index, name,
                  IF plugin \in {"rd_dr", "rd_mcp"} THEN "" ELSE "/dev/sdb",
                  IF plugin \in {"rd_dr", "rd_mcp"} THEN 1 ELSE 0)

FreshDriver == [bs |-> EmptyBag, sos |-> {}]

SharedHBA(plugin) ==
    [bs  |-> SetToBag({Backstore(plugin, 0)}),
     sos |-> {LegacyObject(plugin, 0, "a"), LegacyObject(plugin, 0, "b")}]

SharedName(plugin) ==
    [bs  |-> SetToBag({Backstore(plugin, 0), Backstore(plugin, 1)}),
     sos |-> {LegacyObject(plugin, 0, "a"), LegacyObject(plugin, 1, "a")}]

\* the plugins the legacy configurations are drawn from
LegacyPlugins == {"rd_mcp", "fileio"}

LegacyDrivers ==
    {SharedHBA(p) : p \in LegacyPlugins}
        \cup {SharedName(p) : p \in LegacyPlugins}

\* the targetcli processes of the side-by-side runs
Sessions == {"s1", "s2"}

\* a process with no command under way
Idle ==
    [pc |-> "idle", plugin |-> NoneV, name |-> NoneV, file_or_dev |-> NoneV,
     size |-> NoSize, round |-> 0, index |-> NoIndex, own |-> {}, so |-> {},
     error |-> ""]

NoSessions == [s \in Sessions |-> Idle]

\* no call of _create_file under way
NoFile ==
    [pc |-> "none", filename |-> NoneV, n |-> 0, sparse |-> FALSE,
     size |-> 0, truncates |-> 0, chunks |-> <<>>]

\* no summary asked for yet
NoSummary == [msg |-> <<>>, healthy |-> FALSE]

NoCommand ==
    [op |-> "none", plugin |-> NoneV, name |-> NoneV, file_or_dev |-> NoneV,
     size |-> NoSize, outcome |-> "none", error |-> "", node |-> NoNode,
     log |-> "", pre_bs |-> EmptyBag, pre_sos |-> {},
     pre_ch |-> [p \in Plugins |-> {}], pre_fs |-> InitFiles]

InitFrom(drivers) ==
    \E d \in drivers :
        /\ backstores = d.bs
        /\ storage_objects = d.sos
        /\ children = UIBackstores_refresh(d.sos)
        /\ files = InitFiles
        /\ last = NoCommand
        /\ shown = NoSummary
        /\ fd = NoFile
        /\ sessions = NoSessions

Init == InitFrom({FreshDriver} \cup LegacyDrivers)

InitFresh == InitFrom({FreshDriver})

----------------------------------------------------------------------------
(* The commands of a session.                                              *)

Now == World(backstores, storage_objects, children, files)

\* the shell is at its prompt: the result of the last command has been shown
AtPrompt == last = NoCommand

\* the command runs to its end with the given result
Completed(op, plugin, name, file_or_dev, size, result) ==
    \E r \in {result} :
    /\ backstores' = r.bs
    /\ storage_objects' = r.sos
    /\ children' = r.ch
    /\ files' = r.fs
    /\ last' = [op |-> op, plugin |-> plugin, name |-> name,
                file_or_dev |-> file_or_dev, size |-> size,
                outcome |-> r.outcome, error |-> r.error, node |-> r.node,
                log |-> r.log, pre_bs |-> backstores,
                pre_sos |-> storage_objects, pre_ch |-> children,
                pre_fs |-> files]
    /\ UNCHANGED aside

\* a create is read at the prompt
CanCreate == AtPrompt /\ BagCardinality(backstores) <= MaxBackstores

\* what can go wrong in one create besides its name, path and size: nothing,
\* one parameter that is no boolean, or one call the driver rejects
Trouble(bools, faults) ==
    {[bad |-> NoneV, fault |-> "none"]}
        \cup {[bad |-> b, fault |-> "none"] : b \in bools}
        \cup {[bad |-> NoneV, fault |-> f] : f \in faults \ {"none"}}

\* the value typed for boolean parameter p
Typed(t, p) == IF t.bad = p THEN "bogus" ELSE NoneV

SimpleFaults == DriverFaults \ {"backstore2"}

CreatePSCSI ==
    /\ CanCreate
    /\ \E name \in Names, dev \in Devices, t \in Trouble({}, SimpleFaults) :
        Completed("create", "pscsi", name, dev, NoSize,
                  UIPSCSIBackstore_ui_command_create(Now, name, dev, t.fault))

CreateRDDR ==
    /\ CanCreate
    /\ \E name \in Names, size \in Sizes,
          t \in Trouble({"generate_wwn"}, SimpleFaults) :
        Completed("create", "rd_dr", name, NoneV, size,
                  UIRDDRBackstore_ui_command_create(Now, name, size,
                      Typed(t, "generate_wwn"), t.fault))

CreateRDMCP ==
    /\ CanCreate
    /\ \E name \in Names, size \in Sizes,
          t \in Trouble({"generate_wwn"}, SimpleFaults) :
        Completed("create", "rd_mcp", name, NoneV, size,
                  UIRDMCPBackstore_ui_command_create(Now, name, size,
                      Typed(t, "generate_wwn"), t.fault))

CreateFileIO ==
    /\ CanCreate
    /\ \E name \in Names, file_or_dev \in Paths, size \in Sizes \cup {NoSize},
          t \in Trouble({"generate_wwn", "buffered", "sparse"}, DriverFaults) :
        Completed("create", "fileio", name, file_or_dev, size,
                  UIFileIOBackstore_ui_command_create(Now, name, file_or_dev,
                      size, Typed(t, "generate_wwn"), Typed(t, "buffered"),
                      Typed(t, "sparse"), t.fault))

CreateIBlock ==
    /\ CanCreate
    /\ \E name \in Names, dev \in Devices,
          t \in Trouble({"generate_wwn"}, SimpleFaults) :
        Completed("create", "iblock", name, dev, NoSize,
                  UIIBlockBackstore_ui_command_create(Now, name, dev,
                      Typed(t, "generate_wwn"), t.fault))

\* the names a delete is tried with: those on display and the plain ones
DeleteNames(plugin) == Names \cup {child.name : child \in children[plugin]}

Delete ==
    /\ AtPrompt
    /\ \E plugin \in Plugins :
        \E name \in DeleteNames(plugin) :
            \E child \in IF get_child(children, plugin, name) = {}
                            THEN {NoNode}
                            ELSE get_child(children, plugin, name) :
                Completed("delete", plugin, name, NoneV, NoSize,
                          ui_command_delete(Now, plugin, name, child))

\* the command's node or error has been shown; the shell prompts again
Prompt ==
    /\ ~AtPrompt
    /\ last' = NoCommand
    /\ UNCHANGED <<backstores, storage_objects, children, files>>
    /\ UNCHANGED aside

Next ==
    \/ Prompt
    \/ CreatePSCSI
    \/ CreateRDDR
    \/ CreateRDMCP
    \/ CreateFileIO
    \/ CreateIBlock
    \/ Delete

\* a session on a driver in any state the legacy UI or this one can leave
Spec == Init /\ [][Next]_vars

\* a session on a driver with nothing configured
SpecFresh == InitFresh /\ [][Next]_vars

----------------------------------------------------------------------------
(* The display of storage objects: UIStorageObject.summary and the names   *)
(* refresh gives the children, over the configurations a driver can hold.  *)
(* A message is the sequence of the pieces the code formats it from.       *)

\* the storage objects of a driver configuration are at most this many
MaxObjects == 3

\* stored names, one of them of the shape dedup_so_name produces
DisplayNames == {"a", "a_1", "b"}

\* storage_object.status of an object no LUN exports
so_status == "deactivated"

\* rtslib.utils.convert_bytes_to_human
convert_bytes_to_human(size) ==
    IF size = 0 THEN ""
    ELSE IF size < 1024 THEN "(" \o ToString(size) \o ".0bytes) "
    ELSE "(" \o ToString(size \div 1024) \o ".0K) "

\* ", ".join(list), each item a sequence of pieces
RECURSIVE join(_)
join(list) ==
    IF list = <<>> THEN <<>>
    ELSE IF Len(list) = 1 THEN list[1]
    ELSE list[1] \o <<", ">> \o join(Tail(list))

\* summary that takes the udev path of ramdisks too
summary_udev_path_only(sos, child) ==
    LET so      == child.so
        path    == so.udev_path
        broken  == IF path = "" THEN << <<"BROKEN STORAGE LINK">> >> ELSE <<>>
        legacy  == (IF so.name # child.name
                        THEN << <<"ADDED SUFFIX">> >> ELSE <<>>)
                   \o (IF Cardinality(hba_storage_objects(sos, so.plugin,
                                                          so.index)) > 1
                        THEN << <<"SHARED HBA">> >> ELSE <<>>)
        errors  == broken \o (IF legacy # <<>>
                                  THEN << <<"LEGACY: ">> \o join(legacy) >>
                                  ELSE <<>>)
        size    == convert_bytes_to_human(so.size)
    IN  IF errors # <<>>
            THEN [msg |-> join(errors)
                            \o (IF path # ""
                                    THEN <<" (", path, " ", so_status, ")">>
                                    ELSE <<>>),
                  healthy |-> FALSE]
            ELSE [msg |-> <<path, " ", size, so_status>>, healthy |-> TRUE]

\* UIStorageObject.summary
summary(sos, child) ==
    LET so      == child.so
        path    == IF so.plugin \in {"rd_dr", "rd_mcp"}
                       THEN "ramdisk" ELSE so.udev_path
        broken  == IF path = "" THEN << <<"BROKEN STORAGE LINK">> >> ELSE <<>>
        legacy  == (IF so.name # child.name
                        THEN << <<"ADDED SUFFIX">> >> ELSE <<>>)
                   \o (IF Cardinality(hba_storage_objects(sos, so.plugin,
                                                          so.index)) > 1
                        THEN << <<"SHARED HBA">> >> ELSE <<>>)
        errors  == broken \o (IF legacy # <<>>
                                  THEN << <<"LEGACY: ">> \o join(legacy) >>
                                  ELSE <<>>)
        size    == convert_bytes_to_human(so.size)
    IN  IF errors # <<>>
            THEN [msg |-> join(errors)
                            \o (IF path # ""
                                    THEN <<" (", path, " ", so_status, ")">>
                                    ELSE <<>>),
                  healthy |-> FALSE]
            ELSE [msg |-> <<path, " ", size, so_status>>, healthy |-> TRUE]

\* the storage objects a driver can be asked to hold: ramdisks, which have no
\* udev path, and files with and without one
DisplayObjects ==
    {StorageObject("rd_mcp", index, name, "", 1) :
        index \in 0..(IndexBound - 1), name \in DisplayNames}
    \cup
    {StorageObject("fileio", index, name, udev_path, 1) :
        index \in 0..(IndexBound - 1), name \in DisplayNames,
        udev_path \in {"", "/img"}}

\* the driver keeps the names on one backstore distinct
DistinctOnBackstore(sos) ==
    \A o1, o2 \in sos :
        (o1.plugin = o2.plugin /\ o1.index = o2.index /\ o1.name = o2.name)
            => o1 = o2

RECURSIVE UpTo(_, _)
\* the subsets of a set with at most n elements
UpTo(set, n) ==
    IF n = 0 THEN {{}}
    ELSE LET smaller == UpTo(set, n - 1)
         IN  smaller \cup {sub \cup {e} : sub \in smaller, e \in set}

DisplayDrivers ==
    {[bs  |-> SetToBag({Backstore(so.plugin, so.index) : so \in sos}),
      sos |-> sos] :
        sos \in {c \in UpTo(DisplayObjects, MaxObjects) :
                    DistinctOnBackstore(c)}}

InitDisplay == InitFrom(DisplayDrivers)

\* UIBackstores.refresh, as ui_command_delete and the refresh command call it
Refresh ==
    /\ AtPrompt
    /\ Completed("refresh", NoneV, NoneV, NoneV, NoSize,
                 Return(World(backstores, storage_objects,
                              UIBackstores_refresh(storage_objects), files),
                        NoNode, ""))

\* the shell asks a child for its summary to list it
Summary ==
    /\ AtPrompt
    /\ \E plugin \in Plugins : \E child \in children[plugin] :
        /\ shown' = summary(storage_objects, child)
        /\ last' = [NoCommand EXCEPT !.op = "summary", !.plugin = plugin,
                                     !.name = child.name, !.node = child,
                                     !.outcome = "returned",
                                     !.pre_bs = backstores,
                                     !.pre_sos = storage_objects,
                                     !.pre_ch = children]
    /\ UNCHANGED <<backstores, storage_objects, children, files, fd, sessions>>

NextDisplay ==
    \/ Prompt
    \/ Refresh
    \/ Summary

SpecDisplay == InitDisplay /\ [][NextDisplay]_vars

----------------------------------------------------------------------------
(* _create_file, statement by statement: open, then one ftruncate or the   *)
(* write loop, then close; an IOError inside the try closes and removes    *)
(* the file.                                                               *)

\* the requested lengths run up to this many full chunks and a bit
MaxChunks == 3

FileSizes ==
    {chunk * 1024 + rest : chunk \in 0..MaxChunks, rest \in {0, 1, 1023}}

\* a write size that is always a full chunk
write_size_full_chunk(size) == 1024

\* write_size = min(size, 1024)
write_size(size) == Min(size, 1024)

InitCreateFile ==
    /\ backstores = EmptyBag
    /\ storage_objects = {}
    /\ children = UIBackstores_refresh({})
    /\ files = InitFiles
    /\ last = NoCommand
    /\ shown = NoSummary
    /\ sessions = NoSessions
    /\ \E n \in FileSizes, sparse \in BOOLEAN :
        fd = [pc |-> "open", filename |-> "/new", n |-> n, sparse |-> sparse,
              size |-> n, truncates |-> 0, chunks |-> <<>>]

\* f = open(filename, "w+")
Open ==
    /\ fd.pc = "open"
    /\ files' = [files EXCEPT ![fd.filename] = [type |-> "file", size |-> 0]]
    /\ fd' = [fd EXCEPT !.pc = IF fd.sparse THEN "truncate" ELSE "while"]
    /\ UNCHANGED <<backstores, storage_objects, children, last, shown, sessions>>

\* os.ftruncate(f.fileno(), size)
Truncate ==
    /\ fd.pc = "truncate"
    /\ files' = [files EXCEPT ![fd.filename].size = fd.size]
    /\ fd' = [fd EXCEPT !.pc = "close", !.truncates = @ + 1]
    /\ UNCHANGED <<backstores, storage_objects, children, last, shown, sessions>>

\* one turn of the while loop, or its end
While ==
    /\ fd.pc = "while"
    /\ IF fd.size > 0
         THEN /\ files' = [files EXCEPT ![fd.filename].size =
                                            @ + write_size(fd.size)]
              /\ fd' = [fd EXCEPT !.size = @ - write_size(fd.size),
                                  !.chunks = Append(@, write_size(fd.size))]
         ELSE /\ fd' = [fd EXCEPT !.pc = "close"]
              /\ files' = files
    /\ UNCHANGED <<backstores, storage_objects, children, last, shown, sessions>>

\* ftruncate or write raises IOError: close, remove, raise ExecutionError
IOError ==
    /\ \/ fd.pc = "truncate"
       \/ fd.pc = "while" /\ fd.size > 0
    /\ files' = [files EXCEPT ![fd.filename] = Absent]
    /\ fd' = [fd EXCEPT !.pc = "raised"]
    /\ UNCHANGED <<backstores, storage_objects, children, last, shown, sessions>>

\* f.close()
Close ==
    /\ fd.pc = "close"
    /\ fd' = [fd EXCEPT !.pc = "closed"]
    /\ UNCHANGED <<backstores, storage_objects, children, files, last, shown,
                   sessions>>

NextCreateFile ==
    \/ Open
    \/ Truncate
    \/ While
    \/ IOError
    \/ Close

\* the interpreter runs the call on: no step of it waits for anything
SpecCreateFile ==
    InitCreateFile /\ [][NextCreateFile]_vars /\ WF_vars(NextCreateFile)

----------------------------------------------------------------------------
(* A session killed inside ui_command_delete, after the storage object is  *)
(* deleted and before its backstore is: the driver keeps the empty         *)
(* backstore, and the next session builds its tree from the driver.        *)

\* the live backstores of a driver state that hold no storage object
EmptyBackstores(bs, sos) ==
    {b \in BagToSet(bs) : hba_storage_objects(sos, b.plugin, b.index) = {}}

DeleteInterrupted ==
    /\ AtPrompt
    /\ \E plugin \in Plugins : \E name \in DeleteNames(plugin) :
        \E child \in get_child(children, plugin, name) :
            LET so   == child.so
                sos1 == StorageObject_delete(storage_objects, so)
            IN  /\ hba_storage_objects(sos1, so.plugin, so.index) = {}
                /\ storage_objects' = sos1
                /\ children' = UIBackstores_refresh(sos1)
                /\ last' = [NoCommand EXCEPT !.op = "delete", !.plugin = plugin,
                                             !.name = name,
                                             !.outcome = "killed",
                                             !.pre_bs = backstores,
                                             !.pre_sos = storage_objects,
                                             !.pre_ch = children,
                                             !.pre_fs = files]
    /\ UNCHANGED <<backstores, files>>
    /\ UNCHANGED aside

\* sessions that use a ramdisk plugin and fileio, and may be killed
NextCrash ==
    \/ Prompt
    \/ CreateRDDR
    \/ CreateFileIO
    \/ Delete
    \/ DeleteInterrupted

SpecCrash == Init /\ [][NextCrash]_vars

----------------------------------------------------------------------------
(* Two targetcli processes on one driver, each running one create.  The    *)
(* handler is cut at its calls into the driver: the name check, the index  *)
(* read by next_hba_index, the backstore creation, the storage object      *)
(* creation and the rollback are steps of their own, and the steps of the  *)
(* two processes interleave freely.  Both trees were built from the driver *)
(* state the run starts in.                                                *)

\* the create commands typed: a plugin, a name, and for fileio a path and
\* perhaps a size
RaceCommands ==
    {[plugin |-> "rd_dr", name |-> n, file_or_dev |-> NoneV, size |-> z] :
        n \in Names, z \in Sizes}
    \cup
    {[plugin |-> "fileio", name |-> n, file_or_dev |-> f, size |-> z] :
        n \in Names, f \in {"/dev/sdb", "/img"}, z \in Sizes \cup {NoSize}}

InitRace ==
    /\ \E d \in {FreshDriver} \cup LegacyDrivers :
        /\ backstores = d.bs
        /\ storage_objects = d.sos
        /\ children = UIBackstores_refresh(d.sos)
    /\ files = InitFiles
    /\ last = NoCommand
    /\ shown = NoSummary
    /\ fd = NoFile
    /\ \E c1, c2 \in RaceCommands :
        sessions = [s \in Sessions |->
            LET c == IF s = "s1" THEN c1 ELSE c2
            IN  [Idle EXCEPT !.pc = "name", !.plugin = c.plugin,
                             !.name = c.name, !.file_or_dev = c.file_or_dev,
                             !.size = c.size, !.round = 1]]

\* a step of a session leaves the trees, the files and the shell state alone
RaceFrame == UNCHANGED <<children, files, last, shown, fd>>

Raises(s, error) ==
    sessions' = [sessions EXCEPT ![s].pc = "raised", ![s].error = error]

\* assert_available_so_name(name)
CheckName ==
    \E s \in Sessions :
        /\ sessions[s].pc = "name"
        /\ IF assert_available_so_name(children, sessions[s].plugin,
                                       sessions[s].name)
             THEN Raises(s, ErrNameConflict)
             ELSE sessions' = [sessions EXCEPT ![s].pc = "index"]
        /\ UNCHANGED <<backstores, storage_objects>>
        /\ RaceFrame

\* self.next_hba_index(): the indexes live now are read
SnapshotIndex ==
    \E s \in Sessions :
        /\ sessions[s].pc = "index"
        /\ LET index == next_hba_index(backstores, sessions[s].plugin)
           IN  IF index = NoIndex
                 THEN Raises(s, ErrNoIndex)
                 ELSE sessions' = [sessions EXCEPT ![s].pc = "backstore",
                                                   ![s].index = index]
        /\ UNCHANGED <<backstores, storage_objects>>
        /\ RaceFrame

\* where the fileio create goes after the backstore of line 356
fileio_branch(fs, file_or_dev, size) ==
    IF (size = NoSize /\ is_dev(fs, file_or_dev))
            \/ (size # NoSize /\ ~is_dev(fs, file_or_dev))
        THEN [pc |-> "index", error |-> ""]
    ELSE IF isfile(fs, file_or_dev) THEN [pc |-> "returned", error |-> ""]
    ELSE IF exists(fs, file_or_dev)
        THEN [pc |-> "raised", error |-> ErrNotAFile]
    ELSE [pc |-> "raised", error |-> ErrNeedSize]

\* XBackstore(index, mode='create') with the index read before; it is outside
\* the try, so a refusal propagates as it is
CreateBackstore ==
    \E s \in Sessions : \E fault \in BOOLEAN :
        LET r   == sessions[s]
            hba == Backstore_create(backstores, r.plugin, r.index, fault)
            to  == IF r.plugin = "fileio" /\ r.round = 1
                       THEN fileio_branch(files, r.file_or_dev, r.size)
                       ELSE [pc |-> "so", error |-> ""]
        IN  /\ r.pc = "backstore"
            /\ backstores' = hba.bs
            /\ IF ~hba.ok
                 THEN Raises(s, hba.error)
                 ELSE sessions' =
                        [sessions EXCEPT
                            ![s].pc = to.pc, ![s].error = to.error,
                            ![s].round = r.round + 1,
                            ![s].own = @ \cup {Backstore(r.plugin, r.index)}]
            /\ UNCHANGED storage_objects
            /\ RaceFrame

\* XStorageObject(backstore, name, ...) inside the try
CreateStorageObject ==
    \E s \in Sessions : \E fault \in BOOLEAN :
        LET r    == sessions[s]
            so   == StorageObject(r.plugin, r.index, r.name,
                        IF r.plugin = "fileio" THEN r.file_or_dev ELSE "",
                        IF r.size = NoSize
                            THEN files[r.file_or_dev].size ELSE r.size)
            made == StorageObject_create(storage_objects, so, fault)
        IN  /\ r.pc = "so"
            /\ storage_objects' = made.sos
            /\ sessions' =
                    IF made.ok
                        THEN [sessions EXCEPT ![s].pc = "returned",
                                              ![s].so = {so}]
                        ELSE [sessions EXCEPT ![s].pc = "except",
                                              ![s].error = ErrStorageObject]
            /\ UNCHANGED backstores
            /\ RaceFrame

\* except: backstore.delete(); raise exception
Rollback ==
    \E s \in Sessions :
        LET r == sessions[s]
        IN  /\ r.pc = "except"
            /\ backstores' = Backstore_delete(backstores, r.plugin, r.index)
            /\ sessions' = [sessions EXCEPT
                                ![s].pc = "raised",
                                ![s].own = @ \ {Backstore(r.plugin, r.index)}]
            /\ UNCHANGED storage_objects
            /\ RaceFrame

NextRace ==
    \/ CheckName
    \/ SnapshotIndex
    \/ CreateBackstore
    \/ CreateStorageObject
    \/ Rollback

SpecRace == InitRace /\ [][NextRace]_vars

----------------------------------------------------------------------------
(* Properties of the commands.                                             *)

Created == last.op = "create"

Deleted == last.op = "delete"

Returned == last.outcome = "returned"

Raised == last.outcome = "raised"

\* a create that handed a node back
Success == Created /\ Returned /\ last.node # NoNode

LiveBackstores == BagToSet(backstores)

ChildNames(ch, plugin) == {child.name : child \in ch[plugin]}

\* the storage objects a command added, and those it removed
NewObjects == storage_objects \ last.pre_sos

GoneObjects == last.pre_sos \ storage_objects

\* C1: when a create has made a backstore and the storage object is then
\* refused, the backstore is deleted before the error propagates: the live
\* backstores are those from before the create.
C1_RollbackLeavesNoBackstore ==
    (Created /\ Raised /\ last.error = ErrStorageObject)
        => backstores = last.pre_bs

\* C2: a create that returns without error has added exactly one backstore
\* of its plugin and exactly one storage object of the requested name on it,
\* returns the node of that storage object, and changed nothing else.
C2_SuccessAddsOnePair ==
    (Created /\ Returned) =>
        \E index \in 0..(IndexBound - 1) :
            /\ backstores =
                   last.pre_bs (+) SetToBag({Backstore(last.plugin, index)})
            /\ last.pre_sos \subseteq storage_objects
            /\ NewObjects = {last.node.so}
            /\ last.node.so.plugin = last.plugin
            /\ last.node.so.index = index
            /\ last.node.so.name = last.name

\* C3: a create that fails leaves the driver's backstores and storage
\* objects as they were before the call.
C3_FailedCreateChangesNothing ==
    (Created /\ Raised) =>
        /\ backstores = last.pre_bs
        /\ storage_objects = last.pre_sos

\* C4: in a session that starts with no backstore, after every completed
\* command each live backstore holds exactly one storage object.
C4_OneObjectPerBackstore ==
    \A b \in LiveBackstores :
        Cardinality(hba_storage_objects(storage_objects, b.plugin, b.index)) = 1

\* C5: a create places the backstore of its storage object at the smallest
\* index no live backstore of the plugin had; from an empty driver that is
\* index 0.
C5_CreateUsesNextIndex ==
    Success =>
        last.node.so.index = next_hba_index(last.pre_bs, last.plugin)

\* C6: within a plugin no two live backstores share an index, in every state
\* a session reaches; the index a create asks the driver for is never one the
\* driver has to refuse as taken.
C6_IndexUnique ==
    /\ \A b \in LiveBackstores : CopiesIn(b, backstores) = 1
    /\ last.error # ErrBackstoreExists

\* C6 witness: two backstores of one plugin are live after a create whose
\* storage object was refused and whose backstore was rolled back.
C6_Witness ==
    /\ Created /\ last.error = ErrStorageObject
    /\ \E b1, b2 \in LiveBackstores : b1.plugin = b2.plugin /\ b1 # b2

\* C7 as stated: the name check of a create fails exactly when the name is
\* the stored name of a storage object of the plugin.
C7_ConflictIffStoredName ==
    Created =>
        (last.error = ErrNameConflict
            <=> \E so \in last.pre_sos :
                    so.plugin = last.plugin /\ so.name = last.name)

\* C7 amended: the name check of a create fails exactly when the name is
\* the display name of a UI child of the plugin's backstore node, whatever
\* the children of the other plugins are called.
C7_ConflictIffChildName ==
    Created =>
        (last.error = ErrNameConflict
            <=> last.name \in ChildNames(last.pre_ch, last.plugin))

\* C7 witness: a create passed the name check with a name that a child of
\* another plugin carried.
C7_Witness ==
    /\ Success
    /\ \E p \in Plugins \ {last.plugin} :
           last.name \in ChildNames(last.pre_ch, p)

\* the child a delete found
DeletedChildren == get_child(last.pre_ch, last.plugin, last.name)

\* C8: delete of an existing storage object removes it; its backstore goes
\* too when nothing else is on it and stays, with the other storage object,
\* when it is shared; nothing else changes.
C8_DeleteRemovesObjectAndEmptyBackstore ==
    (Deleted /\ DeletedChildren # {}) =>
        \E child \in DeletedChildren :
            LET so   == child.so
                rest == hba_storage_objects(last.pre_sos, so.plugin, so.index)
                            \ {so}
            IN  /\ storage_objects = last.pre_sos \ {so}
                /\ backstores =
                       IF rest = {}
                           THEN last.pre_bs
                                    (-) SetToBag({Backstore(so.plugin, so.index)})
                           ELSE last.pre_bs

\* C8 witness: a delete took one of two storage objects off a shared
\* backstore and left the backstore.
C8_Witness ==
    /\ Deleted /\ GoneObjects # {}
    /\ backstores = last.pre_bs
    /\ \E so \in GoneObjects :
           hba_storage_objects(storage_objects, so.plugin, so.index) # {}

\* a delete whose name no child of the node carries
DeleteNotFound == Deleted /\ DeletedChildren = {}

Unchanged ==
    /\ backstores = last.pre_bs
    /\ storage_objects = last.pre_sos
    /\ children = last.pre_ch

\* C9 as stated: delete of a name no child carries fails with an error
\* raised to the caller, and changes nothing.
C9_NotFoundRaises == DeleteNotFound => (Raised /\ Unchanged)

\* C9 amended: delete of a name no child carries logs the error "No storage
\* object named <name>." and returns to its caller normally; backstores,
\* storage objects and UI children are unchanged.
C9_NotFoundLogsAndReturns ==
    DeleteNotFound =>
        (Returned /\ last.log = LogNotFound /\ last.node = NoNode /\ Unchanged)

\* C9 witness: such a delete, tried while a child of another name exists.
C9_Witness == DeleteNotFound /\ children[last.plugin] # {}

\* what stops a create whatever its path and size: a name in use, a
\* parameter that is no boolean, no free index, a backstore the driver refuses
OtherCauses == {ErrNameConflict, ErrParam, ErrNoIndex, ErrBackstore}

\* C10: a fileio create on a path that does not exist, given a size, leaves
\* a file of exactly that many bytes at the path, with the storage object on
\* it; given no size it fails asking for one.
C10_NewFileHasRequestedSize ==
    (Created /\ last.plugin = "fileio"
        /\ last.pre_fs[last.file_or_dev] = Absent) =>
        /\ last.size = NoSize => Raised
        /\ (last.size = NoSize /\ last.error \notin OtherCauses)
               => last.error = ErrNeedSize
        /\ (last.size # NoSize /\ Success) =>
               /\ files[last.file_or_dev] =
                      [type |-> "file", size |-> last.size]
               /\ last.node.so.udev_path = last.file_or_dev

\* a fileio create
CreatedFileIO == Created /\ last.plugin = "fileio"

\* C11: a fileio create on an existing block device fails whenever a size is
\* supplied, and creates no storage object.
C11_SizeForbiddenForDevice ==
    (CreatedFileIO /\ last.pre_fs[last.file_or_dev].type = "dev"
        /\ last.size # NoSize) =>
        (Raised /\ storage_objects = last.pre_sos)

\* C11 witness: such a create got as far as looking at the path and was
\* stopped there.
C11_Witness ==
    /\ CreatedFileIO /\ last.pre_fs[last.file_or_dev].type = "dev"
    /\ last.size # NoSize /\ last.error = ErrNotAFile

\* C12: a fileio create on an existing regular file that ends without error
\* has made a storage object whose size is the file's size on disk, whether
\* or not a size was supplied.
C12_ExistingFileSizeUsed ==
    (CreatedFileIO /\ last.pre_fs[last.file_or_dev].type = "file"
        /\ Returned) =>
        /\ Success
        /\ last.node.so \in storage_objects
        /\ last.node.so.size = last.pre_fs[last.file_or_dev].size

\* C13: when the storage object of a create is refused after its backstore
\* was made, the next index allocated for the plugin is the one that would
\* have been allocated before the create: no index is leaked.
C13_RollbackLeaksNoIndex ==
    (Created /\ last.error = ErrStorageObject) =>
        next_hba_index(backstores, last.plugin)
            = next_hba_index(last.pre_bs, last.plugin)

\* C14: a create that finds every index of the range held by a live
\* backstore of its plugin fails with the ExecutionError "Cannot find an
\* available backstore index." and creates no backstore.
C14_ExhaustionRaisesExecutionError ==
    (Created /\ next_hba_index(last.pre_bs, last.plugin) = NoIndex
        /\ last.error \notin {ErrNameConflict, ErrParam}) =>
        (last.error = ErrExhausted /\ backstores = last.pre_bs)

\* the tree has just been refreshed
Refreshed == last.op = "refresh"

\* the children of a plugin that show a storage object
ChildrenOf(so) == {child \in children[so.plugin] : child.so = so}

\* the storage objects of a plugin that carry a stored name
Namesakes(so) ==
    {o \in storage_objects : o.plugin = so.plugin /\ o.name = so.name}

\* C15: after a refresh every storage object has one child; the child's name
\* is the stored name when no other storage object of the plugin has that
\* stored name, and the stored name, "_" and the backstore index otherwise;
\* the refresh leaves the driver's storage objects, stored names included,
\* as they were.
C15_DisplayName ==
    Refreshed =>
        /\ storage_objects = last.pre_sos
        /\ \A plugin \in Plugins : \A child \in children[plugin] :
                child.so \in storage_objects /\ child.so.plugin = plugin
        /\ \A so \in storage_objects :
            /\ Cardinality(ChildrenOf(so)) = 1
            /\ \A child \in ChildrenOf(so) :
                /\ Cardinality(Namesakes(so)) <= 1 => child.name = so.name
                /\ Cardinality(Namesakes(so)) > 1 =>
                    child.name = so.name \o "_" \o ToString(so.index)

\* C15 witness: a refreshed tree with a suffixed child and an unsuffixed one
C15_Witness ==
    /\ Refreshed
    /\ \E plugin \in Plugins : \E c1, c2 \in children[plugin] :
        c1.name # c1.so.name /\ c2.name = c2.so.name

\* C16: after a refresh no two children of a plugin have the same name.
C16_DisplayNamesDistinct ==
    Refreshed =>
        \A plugin \in Plugins : \A c1, c2 \in children[plugin] :
            c1.name = c2.name => c1 = c2

\* a summary has just been computed
Summarised == last.op = "summary"

Contains(msg, piece) == \E i \in 1..Len(msg) : msg[i] = piece

\* the pieces of a message from the i-th on start with those of part
HasAt(msg, i, part) ==
    /\ i + Len(part) - 1 <= Len(msg)
    /\ \A k \in 1..Len(part) : msg[i + k - 1] = part[k]

\* the three things the summary of a child can find wrong
PathEmpty(child) ==
    child.so.plugin \notin {"rd_dr", "rd_mcp"} /\ child.so.udev_path = ""

Suffixed(child) == child.name # child.so.name

Shared(child) ==
    Cardinality(hba_storage_objects(storage_objects, child.so.plugin,
                                    child.so.index)) > 1

\* C17: summary reports healthy exactly when the path is not empty, the
\* child's name is the stored name and the backstore holds at most one
\* storage object.  Otherwise the message has "BROKEN STORAGE LINK" exactly
\* when the path is empty, "ADDED SUFFIX" exactly when the name differs and
\* "SHARED HBA" exactly when the backstore holds more than one, the legacy
\* markers joined by commas after "LEGACY: ".  A ramdisk's path is
\* "ramdisk": it never has a broken link.
C17_Summary ==
    Summarised =>
        LET child == last.node
            msg   == shown.msg
        IN  /\ shown.healthy <=>
                    (~PathEmpty(child) /\ ~Suffixed(child) /\ ~Shared(child))
            /\ ~shown.healthy =>
                /\ Contains(msg, "BROKEN STORAGE LINK") <=> PathEmpty(child)
                /\ Contains(msg, "ADDED SUFFIX") <=> Suffixed(child)
                /\ Contains(msg, "SHARED HBA") <=> Shared(child)
                /\ Contains(msg, "LEGACY: ") <=>
                        (Suffixed(child) \/ Shared(child))
                /\ (Suffixed(child) /\ Shared(child)) =>
                        \E i \in 1..Len(msg) :
                            HasAt(msg, i, <<"LEGACY: ", "ADDED SUFFIX", ", ",
                                            "SHARED HBA">>)
                /\ (Suffixed(child) /\ ~Shared(child)) =>
                        \E i \in 1..Len(msg) :
                            HasAt(msg, i, <<"LEGACY: ", "ADDED SUFFIX">>)
                /\ (~Suffixed(child) /\ Shared(child)) =>
                        \E i \in 1..Len(msg) :
                            HasAt(msg, i, <<"LEGACY: ", "SHARED HBA">>)
            /\ child.so.plugin \in {"rd_dr", "rd_mcp"} =>
                /\ ~Contains(msg, "BROKEN STORAGE LINK")
                /\ Contains(msg, "ramdisk")

\* C17 witness: the summary of a child with all three faults
C17_Witness ==
    /\ Summarised
    /\ PathEmpty(last.node) /\ Suffixed(last.node) /\ Shared(last.node)
    /\ ~shown.healthy

\* _create_file has returned
FileCreated == fd.pc = "closed"

\* C19: a _create_file call for a length n >= 0 ends; when it ends without
\* an I/O failure the file has exactly n bytes, made by one truncate to n in
\* sparse mode and in non-sparse mode by writes of at most 1024 bytes each
\* that add up to n; the count of bytes left to write goes down with every
\* write and never below 0.
C19_CreateFileLength ==
    /\ [](FileCreated =>
            /\ files[fd.filename] = [type |-> "file", size |-> fd.n]
            /\ fd.sparse => (fd.truncates = 1 /\ fd.chunks = <<>>)
            /\ ~fd.sparse =>
                /\ fd.truncates = 0
                /\ \A i \in 1..Len(fd.chunks) :
                        fd.chunks[i] > 0 /\ fd.chunks[i] <= 1024
                /\ SumSeq(fd.chunks) = fd.n)
    /\ [](fd.size >= 0)
    /\ [][fd'.chunks # fd.chunks => fd'.size < fd.size]_vars
    /\ <>(fd.pc \in {"closed", "raised"})

\* C19 witness: a file written in several chunks, the last one short
C19_Witness ==
    /\ FileCreated /\ ~fd.sparse
    /\ Len(fd.chunks) > 1
    /\ fd.chunks[Len(fd.chunks)] < 1024

\* C20: an empty live backstore, as a delete killed between its two
\* deletions leaves, is tolerated: next_hba_index does not return its index,
\* no child stands for it, and each later create or delete of its plugin
\* ends, returning or raising, without the driver refusing a taken index and
\* without two live backstores of one plugin and index; a create that
\* succeeds is on a backstore that was not live before.
C20_EmptyBackstoreTolerated ==
    /\ \A b \in EmptyBackstores(backstores, storage_objects) :
        /\ next_hba_index(backstores, b.plugin) # b.index
        /\ \A child \in children[b.plugin] : child.so.index # b.index
    /\ \A b \in LiveBackstores : CopiesIn(b, backstores) = 1
    /\ ((Created \/ (Deleted /\ last.outcome # "killed"))
            /\ \E b \in EmptyBackstores(last.pre_bs, last.pre_sos) :
                    b.plugin = last.plugin) =>
        /\ Returned \/ Raised
        /\ last.error # ErrBackstoreExists
        /\ Success =>
            Backstore(last.node.so.plugin, last.node.so.index)
                \notin BagToSet(last.pre_bs)
        /\ (Deleted /\ DeletedChildren # {}) =>
            \E child \in DeletedChildren : child.so \notin storage_objects

\* C20 witness: a delete was killed, and a ramdisk create then succeeded at
\* an index above that of the empty backstore left behind, which is still
\* live
C20_Witness ==
    /\ Success /\ last.plugin = "rd_dr"
    /\ \E b \in EmptyBackstores(backstores, storage_objects) :
        /\ b.plugin = "rd_dr" /\ b \in BagToSet(last.pre_bs)
        /\ b.index < last.node.so.index

\* both creates have ended
BothDone == \A s \in Sessions : sessions[s].pc \in {"returned", "raised"}

\* the driver refused the backstore of a session: the index was taken
\* between the session's reading of the indexes and its creation
Refused(s) == sessions[s].error = ErrBackstoreExists

\* C18: with two sessions creating side by side, no two live backstores of a
\* plugin share an index; a session whose backstore the driver refuses ends
\* its create with that failure, and when both creates have ended it has
\* left no backstore and no storage object of its own.
C18_RaceLeavesNothing ==
    /\ \A b \in LiveBackstores : CopiesIn(b, backstores) = 1
    /\ \A s \in Sessions :
        Refused(s) =>
            /\ sessions[s].pc = "raised"
            /\ BothDone =>
                /\ sessions[s].own \cap LiveBackstores = {}
                /\ sessions[s].so \cap storage_objects = {}

\* a create or delete has run to its end, returning or raising
CommandEnded == (Created \/ Deleted) /\ (Returned \/ Raised)

\* C21: after every create or delete that has ended, well or not, the
\* children of each plugin are those a refresh would build from the driver
\* as it is now: one child per storage object of the plugin, named as
\* dedup_so_name names it now.
C21_ChildrenAsRefreshed ==
    CommandEnded => children = UIBackstores_refresh(storage_objects)

====
